---------------------------- MODULE Spec2Model ----------------------------
(***************************************************************************)
(* Model of the CSV batch translator (translator_core.py, gui_app.py).     *)
(*                                                                         *)
(* Texts are sequences of one-character strings, so that strip, the       *)
(* regular expressions and the placeholder tokenizer are computed          *)
(* character by character as the Python code computes them.  The three    *)
(* nested calls translate_text, process_rows and run_translation_for_folder*)
(* are three frames (tt, pr, run), each with its own program counter.      *)
(***************************************************************************)
EXTENDS Integers, Sequences, FiniteSets, TLC

VARIABLES
    tt,         \* frame of translate_text
    pr,         \* frame of process_rows
    run,        \* frame of run_translation_for_folder
    input_dir,  \* listing of the input directory (os.listdir order)
    output_dir, \* files written to the output directory
    rows0,      \* the rows as load_csv returned them (before in-place edits)
    trace,      \* history: adapter invocations and cell fills, in order
    log,        \* lines handed to the logger, counted by kind
    fn,         \* frame of a pure function called on its own
    gui         \* the desktop host: controls, queue, worker threads

vars == <<tt, pr, run, input_dir, output_dir, rows0, trace, log, fn, gui>>

----------------------------------------------------------------------------
(* Bounds of the model.                                                    *)

\* largest max_retries tried when translate_text is run on its own
MaxRetriesTried == 4
\* most rows in one CSV file
MaxRows == 2
\* most entries in the input directory
MaxDir == 2

----------------------------------------------------------------------------
(* Characters and strings.                                                 *)

None == <<"<None>">>

UpperCase == <<"A","B","C","D","E","F","G","H","I","J","K","L","M",
               "N","O","P","Q","R","S","T","U","V","W","X","Y","Z">>
LowerCase == <<"a","b","c","d","e","f","g","h","i","j","k","l","m",
               "n","o","p","q","r","s","t","u","v","w","x","y","z">>
DigitChars == <<"0","1","2","3","4","5","6","7","8","9">>

Range(s) == {s[i] : i \in DOMAIN s}

IsDigit(c) == c \in Range(DigitChars)
IsLetter(c) == c \in Range(UpperCase) \cup Range(LowerCase)
\* \w of the re module: letters, digits and the underscore
IsWord(c) == IsLetter(c) \/ IsDigit(c) \/ c = "_"
IsSpace(c) == c \in {" ", "\t", "\n", "\r"}

lower_char(c) ==
    IF c \in Range(UpperCase)
    THEN LowerCase[CHOOSE i \in DOMAIN UpperCase : UpperCase[i] = c]
    ELSE c

lower(s) == [i \in DOMAIN s |-> lower_char(s[i])]

Drop(s, n) == SubSeq(s, n + 1, Len(s))
Take(s, n) == SubSeq(s, 1, n)

startswith(s, p) == Len(s) >= Len(p) /\ Take(s, Len(p)) = p
endswith(s, p) == Len(s) >= Len(p) /\ Drop(s, Len(s) - Len(p)) = p

RECURSIVE lstrip(_)
lstrip(s) == IF s # <<>> /\ IsSpace(Head(s)) THEN lstrip(Tail(s)) ELSE s

RECURSIVE rstrip(_)
rstrip(s) ==
    IF s # <<>> /\ IsSpace(s[Len(s)]) THEN rstrip(Take(s, Len(s) - 1)) ELSE s

strip(s) == rstrip(lstrip(s))

\* str(v): the text of a cell value; str(None) is the four letters "None"
str(v) == IF v = None THEN <<"N","o","n","e">> ELSE v

----------------------------------------------------------------------------
(* is_skippable_source and its three regular expressions.                  *)

\* URL_RE = ^(https?://|www\.) with re.IGNORECASE
URL_RE_match(t) ==
    \/ startswith(lower(t), <<"h","t","t","p",":","/","/">>)
    \/ startswith(lower(t), <<"h","t","t","p","s",":","/","/">>)
    \/ startswith(lower(t), <<"w","w","w",".">>)

AllDigits(s) == s # <<>> /\ \A i \in DOMAIN s : IsDigit(s[i])

\* ONLY_DIGITS_RE = ^\d+(\.\d+)?$
ONLY_DIGITS_RE_match(t) ==
    \/ AllDigits(t)
    \/ \E k \in DOMAIN t :
          t[k] = "." /\ AllDigits(Take(t, k - 1)) /\ AllDigits(Drop(t, k))

\* ONLY_PUNCT_OR_SPACE_RE = ^[\W_]+$
ONLY_PUNCT_OR_SPACE_RE_match(t) ==
    t # <<>> /\ \A i \in DOMAIN t : (~IsWord(t[i]) \/ t[i] = "_")

\* a filter that forgets the purely numeric texts
is_skippable_source_no_digits(text) ==
    IF text = None THEN TRUE
    ELSE LET t == strip(text)
         IN  \/ t = <<>>
             \/ URL_RE_match(t)
             \/ ONLY_PUNCT_OR_SPACE_RE_match(t)

is_skippable_source(text) ==
    IF text = None THEN TRUE
    ELSE LET t == strip(text)
         IN  \/ t = <<>>
             \/ URL_RE_match(t)
             \/ ONLY_DIGITS_RE_match(t)
             \/ ONLY_PUNCT_OR_SPACE_RE_match(t)

----------------------------------------------------------------------------
(* Placeholder tokenizer.                                                  *)

TOKEN_PREFIX == <<"§","§","P","H","_">>
TOKEN_SUFFIX == <<"§","§">>

\* the decimal digits of a natural number, as an f-string prints it
RECURSIVE decimal(_)
decimal(n) ==
    IF n < 10 THEN <<DigitChars[n + 1]>>
    ELSE decimal(n \div 10) \o <<DigitChars[(n % 10) + 1]>>

Token(token_index) == TOKEN_PREFIX \o decimal(token_index) \o TOKEN_SUFFIX

RECURSIVE DigitRun(_, _)
DigitRun(s, i) ==
    IF i <= Len(s) /\ IsDigit(s[i]) THEN 1 + DigitRun(s, i + 1) ELSE 0

\* PLACEHOLDER_PATTERNS[p] tried at position i of s: the length of the match,
\* 0 when there is none.  1: \{[^}]*\}   2: %[sdif]   3: \$\d+
PLACEHOLDER_PATTERNS_match(p, s, i) ==
    CASE p = 1 ->
           IF s[i] = "{" /\ \E j \in (i + 1)..Len(s) : s[j] = "}"
           THEN (CHOOSE j \in (i + 1)..Len(s) :
                    s[j] = "}" /\ \A k \in (i + 1)..(j - 1) : s[k] # "}") - i + 1
           ELSE 0
      [] p = 2 ->
           IF s[i] = "%" /\ i + 1 <= Len(s) /\ s[i + 1] \in {"s", "d", "i", "f"}
           THEN 2 ELSE 0
      [] p = 3 ->
           IF s[i] = "$" /\ DigitRun(s, i + 1) > 0
           THEN 1 + DigitRun(s, i + 1) ELSE 0

\* pattern.sub(repl, s) from position i on; acc carries the text built so far,
\* the mapping (in insertion order) and the closure's token_index
RECURSIVE sub(_, _, _, _)
sub(p, s, i, acc) ==
    IF i > Len(s) THEN acc
    ELSE LET n == PLACEHOLDER_PATTERNS_match(p, s, i)
         IN  IF n > 0
             THEN sub(p, s, i + n,
                      [out |-> acc.out \o Token(acc.token_index),
                       mapping |-> Append(acc.mapping,
                                          [token |-> Token(acc.token_index),
                                           original |-> SubSeq(s, i, i + n - 1)]),
                       token_index |-> acc.token_index + 1])
             ELSE sub(p, s, i + 1, [acc EXCEPT !.out = Append(@, s[i])])

RECURSIVE sub_all(_, _, _)
sub_all(p, s, acc) ==
    IF p > 3 THEN [tokenized |-> s, mapping |-> acc.mapping]
    ELSE LET r == sub(p, s, 1, [acc EXCEPT !.out = <<>>])
         IN  sub_all(p + 1, r.out, r)

tokenize_placeholders(text) ==
    sub_all(1, text, [out |-> <<>>, mapping |-> <<>>, token_index |-> 0])

\* str.replace(old, new) for a non-empty old
RECURSIVE replace(_, _, _)
replace(s, old, new) ==
    IF Len(s) < Len(old) THEN s
    ELSE IF startswith(s, old)
         THEN new \o replace(Drop(s, Len(old)), old, new)
         ELSE <<Head(s)>> \o replace(Tail(s), old, new)

RECURSIVE detokenize_placeholders(_, _)
detokenize_placeholders(text, mapping) ==
    IF mapping = <<>> THEN text
    ELSE detokenize_placeholders(
             replace(text, Head(mapping).token, Head(mapping).original),
             Tail(mapping))

----------------------------------------------------------------------------
(* Schema detection and the fill policy.                                   *)

KEY_COL == "Key"
ID_COL == "Id"
DEFAULT_SOURCE_COL == "English(en)"

LANG_HEADER_TO_DEEPL ==
    [h \in {"Chinese (Simplified)(zh)", "Chinese (Traditional)(zh-Hant)",
            "English(en)", "French(fr)", "German(de)", "Japanese(ja)",
            "Korean(ko)", "Polish(pl)", "Portuguese(pt)", "Russian(ru)",
            "Spanish(es)", "Turkish(tr)"} |->
        CASE h = "Chinese (Simplified)(zh)" -> "ZH"
          [] h = "Chinese (Traditional)(zh-Hant)" -> "ZH-HANT"
          [] h = "English(en)" -> "EN"
          [] h = "French(fr)" -> "FR"
          [] h = "German(de)" -> "DE"
          [] h = "Japanese(ja)" -> "JA"
          [] h = "Korean(ko)" -> "KO"
          [] h = "Polish(pl)" -> "PL"
          [] h = "Portuguese(pt)" -> "PT-PT"
          [] h = "Russian(ru)" -> "RU"
          [] h = "Spanish(es)" -> "ES"
          [] h = "Turkish(tr)" -> "TR"]

\* the loop over fieldnames filling the dict targets (a repeated header
\* assigns the same key again and keeps its first position)
RECURSIVE detect_targets(_, _, _)
detect_targets(fieldnames, source_col, targets) ==
    IF fieldnames = <<>> THEN targets
    ELSE LET h == Head(fieldnames)
             keep == /\ h \notin {KEY_COL, ID_COL, source_col}
                     /\ h \in DOMAIN LANG_HEADER_TO_DEEPL
                     /\ \A i \in DOMAIN targets : targets[i].header # h
         IN  detect_targets(Tail(fieldnames), source_col,
                 IF keep
                 THEN Append(targets, [header |-> h,
                                       code |-> LANG_HEADER_TO_DEEPL[h]])
                 ELSE targets)

\* a detection that takes the source column for a target as well
detect_language_columns_keep_source(fieldnames, source_col) ==
    IF source_col \notin Range(fieldnames)
    THEN [ok |-> FALSE, error |-> "ValueError: source column not found",
          source |-> source_col, targets |-> <<>>]
    ELSE LET targets == detect_targets(fieldnames, KEY_COL, <<>>)
         IN  IF targets = <<>>
             THEN [ok |-> FALSE, error |-> "ValueError: no language columns",
                   source |-> source_col, targets |-> <<>>]
             ELSE [ok |-> TRUE, error |-> "",
                   source |-> source_col, targets |-> targets]

detect_language_columns(fieldnames, source_col) ==
    IF source_col \notin Range(fieldnames)
    THEN [ok |-> FALSE, error |-> "ValueError: source column not found",
          source |-> source_col, targets |-> <<>>]
    ELSE LET targets == detect_targets(fieldnames, source_col, <<>>)
         IN  IF targets = <<>>
             THEN [ok |-> FALSE, error |-> "ValueError: no language columns",
                   source |-> source_col, targets |-> <<>>]
             ELSE [ok |-> TRUE, error |-> "",
                   source |-> source_col, targets |-> targets]

\* a policy that ignores preserve_existing
should_fill_cell_always(current_value, preserve_existing) == TRUE

should_fill_cell(current_value, preserve_existing) ==
    IF ~preserve_existing THEN TRUE
    ELSE IF current_value = None THEN TRUE
    ELSE strip(str(current_value)) = <<>>

----------------------------------------------------------------------------
(* The translation client (the deepl library): one call either raises or  *)
(* returns a text.  What it returns is the service's business: the text   *)
(* behind a language mark, a result that lost its tokens, or a blank.      *)

CLIENT_ERRORS == {"ConnectionError", "TooManyRequestsException"}

LangMark(target_lang) == IF target_lang = "DE" THEN "D" ELSE "F"

ClientResults(text, target_lang) ==
    { <<LangMark(target_lang)>> \o text, <<LangMark(target_lang)>>, <<" ">> }

ClientOutcomes(text, target_lang) ==
    {[ok |-> TRUE, text |-> r, error |-> "None"] :
        r \in ClientResults(text, target_lang)}
    \cup {[ok |-> FALSE, text |-> <<>>, error |-> e] : e \in CLIENT_ERRORS}

----------------------------------------------------------------------------
(* translate_text: the retry loop.                                         *)

DEFAULT_MAX_RETRIES == 5
\* base_delay = 0.8 s, in tenths of a second
DEFAULT_BASE_DELAY == 8

RECURSIVE Pow2(_)
Pow2(n) == IF n = 0 THEN 1 ELSE 2 * Pow2(n - 1)

\* a delay that grows linearly instead of doubling
backoff_delay_linear(base_delay, attempt) == base_delay * (attempt + 1)

\* time.sleep(base_delay * (2 ** attempt))
backoff_delay(base_delay, attempt) == base_delay * Pow2(attempt)

\* a loop that runs once more than max_retries
range_has_one_more(attempt, max_retries) == attempt <= max_retries

\* for attempt in range(max_retries): is there an iteration numbered attempt?
range_has(attempt, max_retries) == attempt < max_retries

\* calls: for each client call made so far, whether it returned; last_call:
\* what the latest client call did; slept: the delays slept so far
no_call == [ok |-> FALSE, text |-> <<>>, error |-> "None"]

tt_idle ==
    [pc |-> "idle", text |-> <<>>, target_lang |-> "", max_retries |-> 0,
     base_delay |-> 0, attempt |-> 0, last_error |-> "None",
     result |-> <<>>, calls |-> <<>>, last_call |-> no_call, slept |-> <<>>]

\* the frame on entry to translate_text
tt_call(text, target_lang, max_retries, base_delay) ==
    [pc |-> IF range_has(0, max_retries) THEN "try" ELSE "raised",
     text |-> text, target_lang |-> target_lang, max_retries |-> max_retries,
     base_delay |-> base_delay, attempt |-> 0, last_error |-> "None",
     result |-> <<>>, calls |-> <<>>, last_call |-> no_call, slept |-> <<>>]

\* one pass through the try block: the client answers or raises
TTAttempt ==
    /\ tt.pc = "try"
    /\ \E o \in ClientOutcomes(tt.text, tt.target_lang) :
          tt' = IF o.ok
                THEN [tt EXCEPT !.pc = "returned", !.result = o.text,
                                !.calls = Append(@, TRUE), !.last_call = o]
                ELSE [tt EXCEPT !.pc = "sleep", !.last_error = o.error,
                                !.calls = Append(@, FALSE), !.last_call = o]
    /\ UNCHANGED <<fn, gui, pr, run, input_dir, output_dir, rows0, trace, log>>

\* the except block's sleep, then the loop header: the next attempt, or the
\* raise RuntimeError(... last_error) after the loop
TTSleep ==
    /\ tt.pc = "sleep"
    /\ tt' = [tt EXCEPT
                !.slept = Append(@, backoff_delay(tt.base_delay, tt.attempt)),
                !.attempt = @ + 1,
                !.pc = IF range_has(tt.attempt + 1, tt.max_retries)
                       THEN "try" ELSE "raised"]
    /\ UNCHANGED <<fn, gui, pr, run, input_dir, output_dir, rows0, trace, log>>

----------------------------------------------------------------------------
(* process_rows.                                                           *)

zero_stats(n) ==
    [rows |-> n, translated_cells |-> 0, skipped_existing |-> 0,
     skipped_source_invalid |-> 0, errors |-> 0]

pr_idle ==
    [pc |-> "idle", rows |-> <<>>, source_col |-> "", targets_map |-> <<>>,
     preserve_existing |-> TRUE, cache |-> <<>>, stats |-> zero_stats(0),
     new_rows |-> <<>>, idx |-> 0, col |-> 0,
     tokenized |-> <<>>, mapping |-> <<>>]

\* the frame on entry to process_rows: empty cache, fresh stats, first row
pr_call(rows, source_col, targets_map, preserve_existing) ==
    [pc |-> "row", rows |-> rows, source_col |-> source_col,
     targets_map |-> targets_map, preserve_existing |-> preserve_existing,
     cache |-> <<>>, stats |-> zero_stats(Len(rows)),
     new_rows |-> <<>>, idx |-> 1, col |-> 0,
     tokenized |-> <<>>, mapping |-> <<>>]

\* One entry of the history.  ev = "skip": the cell was left alone by
\* should_fill_cell.  ev = "adapter": translate_text was invoked for the
\* cell and returned text (ok) or raised (~ok).  ev = "fill": a translation
\* (text, before detokenizing) reached the cell and was written (ok) or
\* discarded as blank (~ok).
Event(ev, ok, text) ==
    [ev |-> ev, file |-> run.fidx, row |-> pr.idx,
     source |-> pr.rows[pr.idx][pr.source_col],
     header |-> pr.targets_map[pr.col].header,
     tok |-> pr.tokenized, lang |-> pr.targets_map[pr.col].code,
     ok |-> ok, text |-> text]

\* a lookup that never hits
cache_has_never(cache, key_cache) == FALSE

\* key_cache in cache
cache_has(cache, key_cache) == key_cache \in DOMAIN cache

\* a result that is never stored
cache_put_nothing(cache, key_cache, translated) == cache

\* cache[key_cache] = translated
cache_put(cache, key_cache, translated) ==
    [k \in DOMAIN cache \cup {key_cache} |->
        IF k = key_cache THEN translated ELSE cache[k]]

\* a test that lets every result through
is_written_always(detok) == TRUE

\* an except block that counts the failure twice
cell_failed_twice(frame) ==
    [frame EXCEPT !.stats.errors = @ + 2, !.col = @ + 1, !.pc = "cell"]

\* if str(detok).strip() != "": is the detokenized result written?
is_written(detok) == strip(str(detok)) # <<>>

\* the translation written with its tokens still in it
fill_cell_raw(frame, translated) ==
    LET header == frame.targets_map[frame.col].header
    IN  IF is_written(translated)
        THEN [frame EXCEPT !.rows[frame.idx][header] = translated,
                           !.stats.translated_cells = @ + 1]
        ELSE frame

\* the translation written into the source column
fill_cell_into_source(frame, translated) ==
    LET detok == detokenize_placeholders(translated, frame.mapping)
    IN  IF is_written(detok)
        THEN [frame EXCEPT !.rows[frame.idx][frame.source_col] = detok,
                           !.stats.translated_cells = @ + 1]
        ELSE frame

\* lines 231-234: detokenize, and write and count when the result is not blank
fill_cell(frame, translated) ==
    LET header == frame.targets_map[frame.col].header
        detok == detokenize_placeholders(translated, frame.mapping)
    IN  IF is_written(detok)
        THEN [frame EXCEPT !.rows[frame.idx][header] = detok,
                           !.stats.translated_cells = @ + 1]
        ELSE frame

\* a failure that gives up the rest of the row
cell_failed_break(frame) ==
    [frame EXCEPT !.stats.errors = @ + 1,
                  !.col = Len(frame.targets_map) + 1, !.pc = "cell"]

\* lines 240-243: the except block counts the error; the loop over the
\* target columns goes on
cell_failed(frame) ==
    [frame EXCEPT !.stats.errors = @ + 1, !.col = @ + 1, !.pc = "cell"]

\* whether fill_cell writes the cell
fill_written(frame, translated) ==
    is_written(detokenize_placeholders(translated, frame.mapping))

\* the for loop over rows is exhausted: return new_rows, stats
PRReturn ==
    /\ pr.pc = "row"
    /\ pr.idx > Len(pr.rows)
    /\ pr' = [pr EXCEPT !.pc = "returned"]
    /\ UNCHANGED <<fn, gui, tt, run, input_dir, output_dir, rows0, trace, log>>

\* a row whose source is skippable: counted, appended as it is, next row
PRSkipRow ==
    /\ pr.pc = "row"
    /\ pr.idx <= Len(pr.rows)
    /\ is_skippable_source(pr.rows[pr.idx][pr.source_col])
    /\ pr' = [pr EXCEPT !.stats.skipped_source_invalid = @ + 1,
                        !.new_rows = Append(@, pr.rows[pr.idx]),
                        !.idx = @ + 1]
    /\ UNCHANGED <<fn, gui, tt, run, input_dir, output_dir, rows0, trace, log>>

\* a row to translate: tokenize its source once, go to its first target
PRBeginRow ==
    /\ pr.pc = "row"
    /\ pr.idx <= Len(pr.rows)
    /\ ~is_skippable_source(pr.rows[pr.idx][pr.source_col])
    /\ LET t == tokenize_placeholders(pr.rows[pr.idx][pr.source_col])
       IN  pr' = [pr EXCEPT !.tokenized = t.tokenized, !.mapping = t.mapping,
                            !.col = 1, !.pc = "cell"]
    /\ UNCHANGED <<fn, gui, tt, run, input_dir, output_dir, rows0, trace, log>>

\* the loop over targets_map is exhausted: new_rows.append(row), next row
PREndRow ==
    /\ pr.pc = "cell"
    /\ pr.col > Len(pr.targets_map)
    /\ pr' = [pr EXCEPT !.new_rows = Append(@, pr.rows[pr.idx]),
                        !.idx = @ + 1, !.col = 0, !.pc = "row"]
    /\ UNCHANGED <<fn, gui, tt, run, input_dir, output_dir, rows0, trace, log>>

\* the cell is not to be filled: counted as skipped_existing
PRSkipExisting ==
    /\ pr.pc = "cell"
    /\ pr.col <= Len(pr.targets_map)
    /\ ~should_fill_cell(pr.rows[pr.idx][pr.targets_map[pr.col].header],
                         pr.preserve_existing)
    /\ pr' = [pr EXCEPT !.stats.skipped_existing = @ + 1, !.col = @ + 1]
    /\ trace' = Append(trace, Event("skip", FALSE, <<>>))
    /\ UNCHANGED <<fn, gui, tt, run, input_dir, output_dir, rows0, log>>

\* the cell is to be filled and its key is cached: no call, fill from cache
PRCacheHit ==
    /\ pr.pc = "cell"
    /\ pr.col <= Len(pr.targets_map)
    /\ should_fill_cell(pr.rows[pr.idx][pr.targets_map[pr.col].header],
                        pr.preserve_existing)
    /\ LET key_cache == <<pr.tokenized, pr.targets_map[pr.col].code>>
           translated == pr.cache[key_cache]
       IN  /\ cache_has(pr.cache, key_cache)
           /\ pr' = [fill_cell(pr, translated) EXCEPT !.col = @ + 1]
           /\ trace' = Append(trace,
                  Event("fill", fill_written(pr, translated), translated))
    /\ UNCHANGED <<fn, gui, tt, run, input_dir, output_dir, rows0, log>>

\* the cell is to be filled and its key is not cached: translate_text is
\* called with its default max_retries and base_delay
PRCallAdapter ==
    /\ pr.pc = "cell"
    /\ pr.col <= Len(pr.targets_map)
    /\ should_fill_cell(pr.rows[pr.idx][pr.targets_map[pr.col].header],
                        pr.preserve_existing)
    /\ ~cache_has(pr.cache, <<pr.tokenized, pr.targets_map[pr.col].code>>)
    /\ tt' = tt_call(pr.tokenized, pr.targets_map[pr.col].code,
                     DEFAULT_MAX_RETRIES, DEFAULT_BASE_DELAY)
    /\ pr' = [pr EXCEPT !.pc = "translating"]
    /\ UNCHANGED <<fn, gui, run, input_dir, output_dir, rows0, trace, log>>

\* translate_text returned: the result is cached, detokenized and written
PRAdapterReturned ==
    /\ pr.pc = "translating"
    /\ tt.pc = "returned"
    /\ LET key_cache == <<pr.tokenized, pr.targets_map[pr.col].code>>
           cached == [pr EXCEPT
                        !.cache = cache_put(pr.cache, key_cache, tt.result)]
           filled == fill_cell(cached, tt.result)
       IN  /\ pr' = [filled EXCEPT !.col = @ + 1, !.pc = "cell"]
           /\ trace' = trace \o
                  << Event("adapter", TRUE, tt.result),
                     Event("fill", fill_written(pr, tt.result), tt.result) >>
    /\ tt' = tt_idle
    /\ UNCHANGED <<fn, gui, run, input_dir, output_dir, rows0, log>>

\* translate_text raised: the except block counts and logs the failure and
\* the loop goes on with the next target column
PRAdapterRaised ==
    /\ pr.pc = "translating"
    /\ tt.pc = "raised"
    /\ pr' = cell_failed(pr)
    /\ trace' = Append(trace, Event("adapter", FALSE, <<>>))
    /\ log' = [log EXCEPT !.cell_failed = @ + 1]
    /\ tt' = tt_idle
    /\ UNCHANGED <<fn, gui, run, input_dir, output_dir, rows0>>

----------------------------------------------------------------------------
(* run_translation_for_folder.                                             *)

zero_summary ==
    [files |-> 0, rows |-> 0, translated_cells |-> 0, skipped_existing |-> 0,
     skipped_source_invalid |-> 0, errors |-> 0]

run_idle ==
    [pc |-> "idle", api_key |-> <<>>, deepl |-> TRUE, source_col |-> "",
     overwrite_existing |-> FALSE, dirs |-> FALSE, listed |-> FALSE,
     loaded |-> 0, done |-> <<>>,
     all_files |-> <<>>, fidx |-> 0, fieldnames |-> <<>>,
     summary |-> zero_summary, error |-> "None"]

\* listed: os.listdir was called; loaded: the number of load_csv calls;
\* done: how each file of all_files ended, in order
\* the frame on entry to run_translation_for_folder; deepl tells whether the
\* import of the deepl library succeeded (the module global is not None)
run_call(api_key, deepl, source_col, overwrite_existing) ==
    [run_idle EXCEPT !.pc = "start", !.api_key = api_key, !.deepl = deepl,
                     !.source_col = source_col,
                     !.overwrite_existing = overwrite_existing]

\* a filter that forgets os.path.isfile
is_csv_file_any_entry(entry) ==
    endswith(lower(entry.name), <<".","c","s","v">>)

\* f.lower().endswith(".csv") and os.path.isfile(...)
is_csv_file(entry) ==
    endswith(lower(entry.name), <<".","c","s","v">>) /\ entry.isfile

RECURSIVE csv_files(_)
csv_files(listing) ==
    IF listing = <<>> THEN <<>>
    ELSE (IF is_csv_file(Head(listing)) THEN <<Head(listing).name>> ELSE <<>>)
         \o csv_files(Tail(listing))

\* a pre-flight that forgets the key
preflight_ok_library_only(frame) == frame.deepl

\* the pre-flight conditions of lines 293-297: deepl is not None, and
\* api_key is neither None nor empty
preflight_ok(frame) ==
    frame.deepl /\ frame.api_key # None /\ frame.api_key # <<>>

\* lines 346-351: one file's stats folded into the summary
fold_stats(summary, stats) ==
    [files |-> summary.files + 1,
     rows |-> summary.rows + stats.rows,
     translated_cells |-> summary.translated_cells + stats.translated_cells,
     skipped_existing |-> summary.skipped_existing + stats.skipped_existing,
     skipped_source_invalid |->
         summary.skipped_source_invalid + stats.skipped_source_invalid,
     errors |-> summary.errors + stats.errors]

\* a failure that ends the whole batch
file_failed_abort(frame) ==
    [frame EXCEPT !.summary.errors = @ + 1, !.pc = "returned"]

\* the except block of the per-file try: one error, the file is given up
file_failed(frame) ==
    [frame EXCEPT !.summary.errors = @ + 1, !.fidx = @ + 1, !.pc = "file"]

put_file(dir, name, content) ==
    [n \in DOMAIN dir \cup {name} |-> IF n = name THEN content ELSE dir[n]]

----------------------------------------------------------------------------
(* The inputs the model draws from.                                        *)

SeqsUpTo(S, n) == UNION {[1..k -> S] : k \in 0..n}

T_ax == <<"a","{","x","}">>
T_ay == <<"a","{","y","}">>
T_b == <<"b">>
T_z == <<"z">>

\* a file with two target columns and a column that is no language
H2 == <<"Key", "English(en)", "German(de)", "Notes", "French(fr)">>

Row2(src, de, fr) ==
    [h \in Range(H2) |->
        CASE h = "Key" -> <<"K">>
          [] h = "English(en)" -> src
          [] h = "German(de)" -> de
          [] h = "Notes" -> IF de = None THEN None ELSE <<"n">>
          [] h = "French(fr)" -> fr]

\* sources is_skippable_source accepts: a short row (csv.DictReader fills
\* the missing cells with None), a blank, a URL, a number, punctuation
SkippableSources == {<<" ">>, <<"W","w","w",".","a">>, <<"1",".","5">>, <<"_","!">>}

RowPalette ==
    {Row2(None, None, None)}
    \cup {Row2(s, <<>>, T_z) : s \in SkippableSources}
    \cup {Row2(T_ax, <<>>, <<>>), Row2(T_ay, <<>>, T_z), Row2(T_ax, T_z, None),
          Row2(T_b, <<" ">>, T_z), Row2(T_ay, T_z, <<>>)}

\* a file with one target column
H1 == <<"Key", "English(en)", "German(de)">>

Row1(src, de) ==
    [h \in Range(H1) |->
        CASE h = "Key" -> <<"K">>
          [] h = "English(en)" -> src
          [] h = "German(de)" -> de]

\* what load_csv can return: well-formed files (none, one or two rows, the
\* same source text in two rows, a number as source, a filled target), a
\* file without the source column, a file without any language column
FilePalette ==
    {[fieldnames |-> H1, rows |-> r] :
        r \in {<<>>,
               <<Row1(T_ax, <<>>)>>,
               <<Row1(T_ax, T_z), Row1(T_ay, <<>>)>>,
               <<Row1(<<"1","2">>, T_z), Row1(T_b, <<>>)>>}}
    \cup {[fieldnames |-> <<"Key", "German(de)">>,
           rows |-> << [h \in {"Key", "German(de)"} |-> <<"K">>] >>],
          [fieldnames |-> <<"Key", "English(en)", "Notes">>,
           rows |-> << [h \in {"Key", "English(en)", "Notes"} |-> T_b] >>]}

\* entries of the input directory: two CSV files, a text file, and a
\* directory whose name ends in .csv
DirEntries ==
    {[name |-> <<"a",".","c","s","v">>, isfile |-> TRUE],
     [name |-> <<"B",".","C","S","V">>, isfile |-> TRUE],
     [name |-> <<"n",".","t","x","t">>, isfile |-> TRUE],
     [name |-> <<"d",".","c","s","v">>, isfile |-> FALSE]}

Listings ==
    {l \in SeqsUpTo(DirEntries, MaxDir) :
        \A i, j \in DOMAIN l : i # j => l[i] # l[j]}

----------------------------------------------------------------------------
(* The steps of run_translation_for_folder.                                *)

\* ensure_directories(input_dir, output_dir)
RunEnsureDirs ==
    /\ run.pc = "start"
    /\ run' = [run EXCEPT !.dirs = TRUE, !.pc = "preflight"]
    /\ UNCHANGED <<fn, gui, tt, pr, input_dir, output_dir, rows0, trace, log>>

\* deepl is None, or not api_key: raise RuntimeError
RunPreflightFail ==
    /\ run.pc = "preflight"
    /\ ~preflight_ok(run)
    /\ run' = [run EXCEPT !.pc = "raised", !.error = "RuntimeError"]
    /\ UNCHANGED <<fn, gui, tt, pr, input_dir, output_dir, rows0, trace, log>>

\* the client is constructed, the directory is listed and holds no CSV file:
\* the zero summary is returned
RunListEmpty ==
    /\ run.pc = "preflight"
    /\ preflight_ok(run)
    /\ csv_files(input_dir) = <<>>
    /\ run' = [run EXCEPT !.listed = TRUE, !.all_files = <<>>,
                          !.summary = zero_summary, !.pc = "returned"]
    /\ log' = [log EXCEPT !.no_files = @ + 1]
    /\ UNCHANGED <<fn, gui, tt, pr, input_dir, output_dir, rows0, trace>>

\* the client is constructed, the directory is listed, the loop begins
RunList ==
    /\ run.pc = "preflight"
    /\ preflight_ok(run)
    /\ csv_files(input_dir) # <<>>
    /\ run' = [run EXCEPT !.listed = TRUE, !.all_files = csv_files(input_dir),
                          !.summary = zero_summary, !.fidx = 1, !.pc = "file"]
    /\ UNCHANGED <<fn, gui, tt, pr, input_dir, output_dir, rows0, trace, log>>

\* load_csv raises (the file cannot be opened or decoded)
RunLoadFail ==
    /\ run.pc = "file"
    /\ run.fidx <= Len(run.all_files)
    /\ run' = [file_failed(run) EXCEPT !.loaded = @ + 1,
                                       !.done = Append(@, "load_failed")]
    /\ log' = [log EXCEPT !.file_failed = @ + 1]
    /\ UNCHANGED <<fn, gui, tt, pr, input_dir, output_dir, rows0, trace>>

\* the file is loaded and detect_language_columns raises ValueError
RunSchemaFail ==
    /\ run.pc = "file"
    /\ run.fidx <= Len(run.all_files)
    /\ \E f \in FilePalette :
          /\ ~detect_language_columns(f.fieldnames, run.source_col).ok
          /\ rows0' = f.rows
    /\ run' = [file_failed(run) EXCEPT !.loaded = @ + 1,
                                       !.done = Append(@, "schema_failed")]
    /\ log' = [log EXCEPT !.file_failed = @ + 1]
    /\ UNCHANGED <<fn, gui, tt, pr, input_dir, output_dir, trace>>

\* the file is loaded, its columns are detected, process_rows is called
RunProcess ==
    /\ run.pc = "file"
    /\ run.fidx <= Len(run.all_files)
    /\ \E f \in FilePalette :
          LET d == detect_language_columns(f.fieldnames, run.source_col)
          IN  /\ d.ok
              /\ rows0' = f.rows
              /\ pr' = pr_call(f.rows, d.source, d.targets,
                               ~run.overwrite_existing)
              /\ run' = [run EXCEPT !.fieldnames = f.fieldnames,
                                    !.loaded = @ + 1, !.pc = "processing"]
    /\ UNCHANGED <<fn, gui, tt, input_dir, output_dir, trace, log>>

\* process_rows returned and write_csv succeeds: the file's stats are logged
\* and folded into the summary
RunWrite ==
    /\ run.pc = "processing"
    /\ pr.pc = "returned"
    /\ output_dir' = put_file(output_dir, run.all_files[run.fidx],
                        [fieldnames |-> run.fieldnames, rows |-> pr.new_rows,
                         complete |-> TRUE])
    /\ run' = [run EXCEPT !.summary = fold_stats(@, pr.stats),
                          !.fidx = @ + 1, !.pc = "file",
                          !.done = Append(@, "written")]
    /\ pr' = pr_idle
    /\ UNCHANGED <<fn, gui, tt, input_dir, rows0, trace, log>>

\* process_rows returned and write_csv raises: the output file cannot be
\* opened, or the write breaks off after the header and some of the rows
RunWriteFail ==
    /\ run.pc = "processing"
    /\ pr.pc = "returned"
    /\ \/ output_dir' = output_dir
       \/ \E k \in 0..(Len(pr.new_rows) - 1) :
             output_dir' = put_file(output_dir, run.all_files[run.fidx],
                               [fieldnames |-> run.fieldnames,
                                rows |-> Take(pr.new_rows, k),
                                complete |-> FALSE])
    /\ run' = [file_failed(run) EXCEPT !.done = Append(@, "write_failed")]
    /\ log' = [log EXCEPT !.file_failed = @ + 1]
    /\ pr' = pr_idle
    /\ UNCHANGED <<fn, gui, tt, input_dir, rows0, trace>>

\* the loop over all_files is exhausted: the closing lines are logged and
\* the summary is returned
RunFinish ==
    /\ run.pc = "file"
    /\ run.fidx > Len(run.all_files)
    /\ run' = [run EXCEPT !.pc = "returned"]
    /\ log' = [log EXCEPT !.completed = @ + 1]
    /\ UNCHANGED <<fn, gui, tt, pr, input_dir, output_dir, rows0, trace>>

----------------------------------------------------------------------------
(* Specifications.                                                         *)

zero_log == [cell_failed |-> 0, file_failed |-> 0, no_files |-> 0, completed |-> 0]

\* no pure function is being called on its own
fn_idle == [op |-> "none", pc |-> "idle", arg |-> <<>>, result |-> <<>>]

\* the window is not open
gui_idle == [pc |-> "closed"]

\* the bound of the header rows detect_language_columns is called on
MaxHeaders == 3

\* header names: the two reserved columns, the default source, two more
\* languages of the table, and a column that is no language
HeaderPalette ==
    {"Key", "Id", "English(en)", "German(de)", "French(fr)", "Notes"}

\* detect_language_columns called on its own
fn_call_detect(fieldnames, source_col) ==
    [op |-> "detect_language_columns", pc |-> "call",
     arg |-> [fieldnames |-> fieldnames, source_col |-> source_col],
     result |-> <<>>]

\* the call returns (source_col, targets) or raises ValueError
FnDetect ==
    /\ fn.op = "detect_language_columns"
    /\ fn.pc = "call"
    /\ LET d == detect_language_columns(fn.arg.fieldnames, fn.arg.source_col)
       IN  fn' = [fn EXCEPT !.pc = IF d.ok THEN "returned" ELSE "raised",
                            !.result = d]
    /\ UNCHANGED <<tt, pr, run, input_dir, output_dir, rows0, trace, log, gui>>

InitDetect ==
    /\ \E fieldnames \in SeqsUpTo(HeaderPalette, MaxHeaders),
          source_col \in {DEFAULT_SOURCE_COL, "German(de)"} :
          fn = fn_call_detect(fieldnames, source_col)
    /\ tt = tt_idle
    /\ pr = pr_idle
    /\ run = run_idle
    /\ input_dir = <<>>
    /\ output_dir = <<>>
    /\ rows0 = <<>>
    /\ trace = <<>>
    /\ log = zero_log
    /\ gui = gui_idle

NextDetect == FnDetect

SpecDetect == InitDetect /\ [][NextDetect]_vars

\* translate_text called on its own
InitRetry ==
    /\ \E text \in {T_b, T_ax}, target_lang \in {"DE", "FR"},
          max_retries \in 0..MaxRetriesTried,
          base_delay \in {1, DEFAULT_BASE_DELAY} :
          tt = tt_call(text, target_lang, max_retries, base_delay)
    /\ pr = pr_idle
    /\ run = run_idle
    /\ input_dir = <<>>
    /\ output_dir = <<>>
    /\ rows0 = <<>>
    /\ trace = <<>>
    /\ log = zero_log
    /\ fn = fn_idle
    /\ gui = gui_idle

NextRetry == TTAttempt \/ TTSleep

SpecRetry == InitRetry /\ [][NextRetry]_vars

\* process_rows called on its own, on the rows of a loaded file
InitRows ==
    /\ tt = tt_idle
    /\ \E rows \in SeqsUpTo(RowPalette, MaxRows), preserve_existing \in BOOLEAN :
          /\ pr = pr_call(rows, DEFAULT_SOURCE_COL,
                     detect_language_columns(H2, DEFAULT_SOURCE_COL).targets,
                     preserve_existing)
          /\ rows0 = rows
    /\ run = run_idle
    /\ input_dir = <<>>
    /\ output_dir = <<>>
    /\ trace = <<>>
    /\ log = zero_log
    /\ fn = fn_idle
    /\ gui = gui_idle

NextRows ==
    \/ PRReturn \/ PRSkipRow \/ PRBeginRow \/ PREndRow \/ PRSkipExisting
    \/ PRCacheHit \/ PRCallAdapter \/ PRAdapterReturned \/ PRAdapterRaised
    \/ TTAttempt \/ TTSleep

SpecRows == InitRows /\ [][NextRows]_vars

\* run_translation_for_folder called by the application
Init ==
    /\ tt = tt_idle
    /\ pr = pr_idle
    /\ \E api_key \in {None, <<>>, <<"k">>}, deepl \in BOOLEAN,
          overwrite_existing \in BOOLEAN :
          run = run_call(api_key, deepl, DEFAULT_SOURCE_COL, overwrite_existing)
    /\ input_dir \in Listings
    /\ output_dir = <<>>
    /\ rows0 = <<>>
    /\ trace = <<>>
    /\ log = zero_log
    /\ fn = fn_idle
    /\ gui = gui_idle

Next ==
    \/ RunEnsureDirs \/ RunPreflightFail \/ RunListEmpty \/ RunList
    \/ RunLoadFail \/ RunSchemaFail \/ RunProcess \/ RunWrite \/ RunWriteFail
    \/ RunFinish
    \/ NextRows

Spec == Init /\ [][Next]_vars

----------------------------------------------------------------------------
(* The desktop host (gui_app.py): the Tk main thread, which handles the     *)
(* button commands and the timer callback _poll_log_queue one at a time,   *)
(* and the threads it starts, which only put messages on log_queue.  What  *)
(* a worker's call of run_translation_for_folder does to the host is to    *)
(* call the logger some number of times and then to return or to raise.    *)

\* most presses of the Start and Test buttons
MaxRequests == 2
\* most lines one run hands to its logger
MaxLogLines == 1

\* the window after GuiApp.__init__: controls enabled, queue empty, no
\* worker.  put and handled are history: every message put on log_queue and
\* every message _poll_log_queue took from it, in order; requests counts the
\* presses of the two buttons, rejected and no_key the two ways a Start
\* request is turned down
gui_open(api_key_var) ==
    [pc |-> "idle", api_key_var |-> api_key_var, controls |-> "normal",
     log_queue |-> <<>>, workers |-> <<>>, worker_thread |-> 0,
     tests |-> <<>>, put |-> <<>>, handled |-> <<>>,
     requests |-> 0, rejected |-> 0, no_key |-> 0]

\* a thread object that reports dead as soon as do_work has put its last
\* message
is_alive_until_last_put(thread) == thread.pc \notin {"exit", "dead"}

\* threading.Thread.is_alive(): true until the thread has terminated
is_alive(thread) == thread.pc # "dead"

\* a start handler without the check of the running worker
still_running_never(g) == FALSE

\* line 164: self.worker_thread and self.worker_thread.is_alive()
still_running(g) ==
    g.worker_thread # 0 /\ is_alive(g.workers[g.worker_thread])

\* _disable_controls(busy): the entry, the Save and Test buttons and the
\* Start button
disable_controls(g, busy) ==
    [g EXCEPT !.controls = IF busy THEN "disabled" ELSE "normal"]

\* log_queue.put(msg) by the thread src
queue_put(g, src, msg) ==
    [g EXCEPT !.log_queue = Append(@, [src |-> src, msg |-> msg]),
              !.put = Append(@, [src |-> src, msg |-> msg])]

\* a do_work whose enable message is put on the success path only
do_work_after_no_finally(outcome) ==
    IF outcome = "raised" THEN "exit" ELSE "finally"

\* where do_work goes once the message of the try or of the except block is
\* put: to the finally block, whatever the outcome
do_work_after(outcome) == "finally"

\* the Start button: _on_start
GuiOnStart ==
    /\ gui.pc = "idle"
    /\ gui.controls = "normal"
    /\ gui.requests < MaxRequests
    /\ LET g == [gui EXCEPT !.requests = @ + 1]
           key == strip(gui.api_key_var)
       IN  gui' = IF still_running(g)
                  THEN [g EXCEPT !.rejected = @ + 1]
                  ELSE IF key = <<>>
                  THEN [g EXCEPT !.no_key = @ + 1]
                  ELSE [disable_controls(g, TRUE) EXCEPT
                           !.workers = Append(@, [pc |-> "run", lines |-> 0]),
                           !.worker_thread = Len(g.workers) + 1]
    /\ UNCHANGED <<tt, pr, run, input_dir, output_dir, rows0, trace, log, fn>>

\* the Test button: _on_test_api
GuiOnTestApi ==
    /\ gui.pc = "idle"
    /\ gui.controls = "normal"
    /\ gui.requests < MaxRequests
    /\ gui' = [disable_controls(gui, TRUE) EXCEPT
                  !.requests = @ + 1,
                  !.tests = Append(@, [pc |-> "test"])]
    /\ UNCHANGED <<tt, pr, run, input_dir, output_dir, rows0, trace, log, fn>>

\* the test thread: test_api_key returns, its message is put
TestPutMessage ==
    /\ \E j \in DOMAIN gui.tests, success \in BOOLEAN :
          /\ gui.tests[j].pc = "test"
          /\ gui' = [queue_put(gui, <<"test", j>>, "message") EXCEPT
                        !.tests[j] = [pc |-> "put_enable", success |-> success]]
    /\ UNCHANGED <<tt, pr, run, input_dir, output_dir, rows0, trace, log, fn>>

TestPutEnable ==
    /\ \E j \in DOMAIN gui.tests :
          /\ gui.tests[j].pc = "put_enable"
          /\ gui' = [queue_put(gui, <<"test", j>>, "__ENABLE__") EXCEPT
                        !.tests[j].pc = "put_alert"]
    /\ UNCHANGED <<tt, pr, run, input_dir, output_dir, rows0, trace, log, fn>>

TestPutAlert ==
    /\ \E j \in DOMAIN gui.tests :
          /\ gui.tests[j].pc = "put_alert"
          /\ gui' = [queue_put(gui, <<"test", j>>,
                               IF gui.tests[j].success
                               THEN "__ALERT_OK__" ELSE "__ALERT_FAIL__") EXCEPT
                        !.tests[j].pc = "dead"]
    /\ UNCHANGED <<tt, pr, run, input_dir, output_dir, rows0, trace, log, fn>>

\* the worker: run_translation_for_folder calls its logger, which puts the
\* line on the queue
WorkerLog ==
    /\ \E i \in DOMAIN gui.workers :
          /\ gui.workers[i].pc = "run"
          /\ gui.workers[i].lines < MaxLogLines
          /\ gui' = [queue_put(gui, <<"worker", i>>, "line") EXCEPT
                        !.workers[i].lines = @ + 1]
    /\ UNCHANGED <<tt, pr, run, input_dir, output_dir, rows0, trace, log, fn>>

\* the worker: run_translation_for_folder returns its summary (after at
\* least one line: that no file was found, or the closing lines), and the
\* Summary line is put
WorkerReturn ==
    /\ \E i \in DOMAIN gui.workers :
          /\ gui.workers[i].pc = "run"
          /\ gui.workers[i].lines >= 1
          /\ gui' = [queue_put(gui, <<"worker", i>>, "Summary") EXCEPT
                        !.workers[i].pc = do_work_after("returned")]
    /\ UNCHANGED <<tt, pr, run, input_dir, output_dir, rows0, trace, log, fn>>

\* the worker: run_translation_for_folder raises (in its pre-flight part,
\* before any line is logged), and the failure line is put
WorkerRaise ==
    /\ \E i \in DOMAIN gui.workers :
          /\ gui.workers[i].pc = "run"
          /\ gui.workers[i].lines = 0
          /\ gui' = [queue_put(gui, <<"worker", i>>, "failed") EXCEPT
                        !.workers[i].pc = do_work_after("raised")]
    /\ UNCHANGED <<tt, pr, run, input_dir, output_dir, rows0, trace, log, fn>>

\* the worker: the finally block puts the enable message
WorkerFinally ==
    /\ \E i \in DOMAIN gui.workers :
          /\ gui.workers[i].pc = "finally"
          /\ gui' = [queue_put(gui, <<"worker", i>>, "__ENABLE__") EXCEPT
                        !.workers[i].pc = "exit"]
    /\ UNCHANGED <<tt, pr, run, input_dir, output_dir, rows0, trace, log, fn>>

\* the worker: do_work has returned and the thread terminates
WorkerExit ==
    /\ \E i \in DOMAIN gui.workers :
          /\ gui.workers[i].pc = "exit"
          /\ gui' = [gui EXCEPT !.workers[i].pc = "dead"]
    /\ UNCHANGED <<tt, pr, run, input_dir, output_dir, rows0, trace, log, fn>>

\* the timer set by self.after(100, ...) fires: _poll_log_queue is entered
GuiPollBegin ==
    /\ gui.pc = "idle"
    /\ gui' = [gui EXCEPT !.pc = "polling"]
    /\ UNCHANGED <<tt, pr, run, input_dir, output_dir, rows0, trace, log, fn>>

\* one pass of the while loop: get_nowait() returns the oldest message; the
\* enable message enables the controls, an alert opens a message box, any
\* other message goes to the log panel
GuiPollGet ==
    /\ gui.pc = "polling"
    /\ gui.log_queue # <<>>
    /\ LET m == Head(gui.log_queue)
           g == [gui EXCEPT !.log_queue = Tail(@), !.handled = Append(@, m)]
       IN  gui' = IF m.msg = "__ENABLE__" THEN disable_controls(g, FALSE) ELSE g
    /\ UNCHANGED <<tt, pr, run, input_dir, output_dir, rows0, trace, log, fn>>

\* get_nowait() raises queue.Empty: the loop ends and the timer is set again
GuiPollEmpty ==
    /\ gui.pc = "polling"
    /\ gui.log_queue = <<>>
    /\ gui' = [gui EXCEPT !.pc = "idle"]
    /\ UNCHANGED <<tt, pr, run, input_dir, output_dir, rows0, trace, log, fn>>

\* the application started, with the API key that config.ini holds: none,
\* blanks, or a key
InitGui ==
    /\ \E api_key_var \in {<<>>, <<" ">>, <<"k">>} :
          gui = gui_open(api_key_var)
    /\ tt = tt_idle
    /\ pr = pr_idle
    /\ run = run_idle
    /\ input_dir = <<>>
    /\ output_dir = <<>>
    /\ rows0 = <<>>
    /\ trace = <<>>
    /\ log = zero_log
    /\ fn = fn_idle

NextGui ==
    \/ GuiOnStart \/ GuiOnTestApi
    \/ TestPutMessage \/ TestPutEnable \/ TestPutAlert
    \/ WorkerLog \/ WorkerReturn \/ WorkerRaise \/ WorkerFinally \/ WorkerExit
    \/ GuiPollBegin \/ GuiPollGet \/ GuiPollEmpty

SpecGui == InitGui /\ [][NextGui]_vars

\* the threads run on (the run of a worker ends, as its retries and its
\* files are bounded) and the timer of the main loop keeps firing
SpecGuiLive ==
    /\ SpecGui
    /\ WF_vars(WorkerReturn \/ WorkerRaise)
    /\ WF_vars(WorkerFinally)
    /\ WF_vars(WorkerExit)
    /\ WF_vars(GuiPollBegin)
    /\ WF_vars(GuiPollGet)
    /\ WF_vars(GuiPollEmpty)

\* the bound of the texts the tokenizer is called on, in pieces
MaxPieces == 3

\* pieces of text: plain characters, the three kinds of placeholder, the
\* characters a placeholder begins with, and the characters tokens are made of
PiecePalette ==
    { <<"a">>, <<" ">>, <<"{","x","}">>, <<"{","}">>, <<"%","s">>, <<"%","d">>,
      <<"$","1">>, <<"{">>, <<"%">>, <<"$">>, <<"1">>,
      TOKEN_SUFFIX, Token(0), Token(1), TOKEN_PREFIX \o <<"0">> }

RECURSIVE Concat(_)
Concat(pieces) ==
    IF pieces = <<>> THEN <<>> ELSE Head(pieces) \o Concat(Tail(pieces))

\* tokenize_placeholders called on its own
fn_call_tokenize(text) ==
    [op |-> "tokenize_placeholders", pc |-> "call", arg |-> text,
     result |-> <<>>]

\* the call returns (tokenized, mapping)
FnTokenize ==
    /\ fn.op = "tokenize_placeholders"
    /\ fn.pc = "call"
    /\ fn' = [fn EXCEPT !.pc = "tokenized",
                        !.result = tokenize_placeholders(fn.arg)]
    /\ UNCHANGED <<tt, pr, run, input_dir, output_dir, rows0, trace, log, gui>>

\* detokenize_placeholders called on what tokenize_placeholders returned
\* (the translation in between is the identity)
FnDetokenize ==
    /\ fn.op = "tokenize_placeholders"
    /\ fn.pc = "tokenized"
    /\ fn' = [fn EXCEPT
                !.pc = "returned",
                !.result = [tokenized |-> fn.result.tokenized,
                            mapping |-> fn.result.mapping,
                            out |-> detokenize_placeholders(
                                        fn.result.tokenized, fn.result.mapping)]]
    /\ UNCHANGED <<tt, pr, run, input_dir, output_dir, rows0, trace, log, gui>>

InitTokens ==
    /\ \E pieces \in SeqsUpTo(PiecePalette, MaxPieces) :
          fn = fn_call_tokenize(Concat(pieces))
    /\ tt = tt_idle
    /\ pr = pr_idle
    /\ run = run_idle
    /\ input_dir = <<>>
    /\ output_dir = <<>>
    /\ rows0 = <<>>
    /\ trace = <<>>
    /\ log = zero_log
    /\ gui = gui_idle

NextTokens == FnTokenize \/ FnDetokenize

SpecTokens == InitTokens /\ [][NextTokens]_vars

----------------------------------------------------------------------------
(* Properties of translate_text (checked under SpecRetry).                 *)

\* C1: when the client fails on its first k calls (k < max_retries) and then
\* succeeds, translate_text returns that result after exactly k+1 client
\* calls and exactly k sleeps, the sleep after failed attempt i lasting
\* base_delay * 2^i; it does not give up before max_retries calls failed.
C1_RetryThenSuccess ==
    /\ tt.pc = "returned" =>
          LET k == Len(tt.calls) - 1
          IN  /\ 0 <= k /\ k < tt.max_retries
              /\ \A i \in 1..k : ~tt.calls[i]
              /\ tt.calls[k + 1]
              /\ tt.last_call.ok /\ tt.result = tt.last_call.text
              /\ Len(tt.slept) = k
              /\ \A i \in 0..(k - 1) : tt.slept[i + 1] = tt.base_delay * 2^i
    /\ tt.pc = "raised" => Len(tt.calls) >= tt.max_retries

C1_Witness ==
    /\ tt.pc = "returned"
    /\ tt.max_retries = 4
    /\ tt.base_delay = DEFAULT_BASE_DELAY
    /\ tt.slept = <<8, 16, 32>>

\* C2: with a client that fails on every call, translate_text makes exactly
\* max_retries client calls, never more, and then fails with an error that
\* carries the error of the last call.
C2_AlwaysFailing ==
    /\ Len(tt.calls) <= tt.max_retries
    /\ (tt.pc = "raised" /\ tt.max_retries >= 1) =>
          /\ Len(tt.calls) = tt.max_retries
          /\ \A i \in DOMAIN tt.calls : ~tt.calls[i]
          /\ tt.last_error \in CLIENT_ERRORS
          /\ tt.last_error = tt.last_call.error
    /\ (/\ tt.pc \notin {"idle"}
        /\ Len(tt.calls) = tt.max_retries
        /\ \A i \in DOMAIN tt.calls : ~tt.calls[i]) =>
          tt.pc \in {"sleep", "raised"}

C2_Witness ==
    /\ tt.pc = "raised"
    /\ tt.max_retries = 3
    /\ Len(tt.calls) = 3
    /\ tt.last_error = "ConnectionError"

----------------------------------------------------------------------------
(* Properties of process_rows (checked under SpecRows).                    *)

SamePair(a, b) == a.file = b.file /\ a.tok = b.tok /\ a.lang = b.lang

\* the events of the history about the cell (row i, column header)
CellEvents(i, header) ==
    {e \in DOMAIN trace : trace[e].row = i /\ trace[e].header = header}

\* the cells whose filling needed the pair of event e: those for which
\* translate_text was invoked or the cache was read
Needing(e) ==
    {<<trace[k].row, trace[k].header>> :
        k \in {k \in DOMAIN trace :
                  trace[k].ev \in {"adapter", "fill"} /\ SamePair(trace[k], trace[e])}}

AdapterEvents(e) ==
    {k \in DOMAIN trace : trace[k].ev = "adapter" /\ SamePair(trace[k], trace[e])}

\* the source kinds the filter is to skip, as the rows of the model hold them
SourceIsSkippable(v) == v \in {None} \cup SkippableSources

NonBlank(v) == v # None /\ strip(v) # <<>>

TargetHeaders == {pr.targets_map[t].header : t \in DOMAIN pr.targets_map}

\* C3 as stated: a pair needed for more than one cell has the adapter invoked
\* exactly once, whatever the client does, and every cell filled from it
\* receives the same translated text.
C3_Original ==
    pr.pc = "returned" =>
        \A e \in DOMAIN trace :
            (trace[e].ev \in {"adapter", "fill"} /\ Cardinality(Needing(e)) > 1) =>
                /\ Cardinality(AdapterEvents(e)) = 1
                /\ \A k \in DOMAIN trace :
                      (trace[k].ev = "fill" /\ trace[e].ev = "fill"
                       /\ SamePair(trace[k], trace[e])) =>
                          trace[k].text = trace[e].text

\* C3 as amended: within one process_rows invocation, once the adapter has
\* returned a result for a pair it is never invoked for that pair again, and
\* every cell filled from the pair is filled from that one result; an
\* invocation that raised is not cached and the next cell needing the pair
\* invokes the adapter again.
C3_OneSuccessfulCallPerPair ==
    /\ \A i, j \in DOMAIN trace :
          (i < j /\ SamePair(trace[i], trace[j])) =>
              /\ (trace[i].ev = "adapter" /\ trace[i].ok) => trace[j].ev # "adapter"
              /\ (trace[i].ev = "fill" /\ trace[j].ev = "fill") =>
                    trace[i].text = trace[j].text
    /\ \A j \in DOMAIN trace :
          trace[j].ev = "fill" =>
              \E i \in 1..(j - 1) :
                  /\ trace[i].ev = "adapter" /\ trace[i].ok
                  /\ SamePair(trace[i], trace[j])
                  /\ trace[i].text = trace[j].text
    /\ \A j \in DOMAIN trace :
          (trace[j].ev = "adapter" /\ ~trace[j].ok) =>
              \A i \in 1..(j - 1) :
                  SamePair(trace[i], trace[j]) =>
                      (trace[i].ev = "skip" \/ (trace[i].ev = "adapter" /\ ~trace[i].ok))

\* a pair translated for a cell of the first row and read from the cache for
\* a cell of the second row, whose placeholder is another one
C3_Witness ==
    /\ pr.pc = "returned"
    /\ \E i, j \in DOMAIN trace :
          /\ i < j
          /\ trace[i].ev = "adapter" /\ trace[i].ok
          /\ trace[j].ev = "fill" /\ trace[j].ok
          /\ SamePair(trace[i], trace[j])
          /\ trace[i].row = 1 /\ trace[j].row = 2
          /\ trace[j - 1].ev # "adapter"
          /\ rows0[1][pr.source_col] # rows0[2][pr.source_col]

\* C5: a row whose source cell is skippable keeps every cell, has no
\* translate call made for it and adds exactly one to skipped_source_invalid,
\* whatever preserve_existing is.
C5_SkippableRowUntouched ==
    pr.pc # "idle" =>
        /\ \A i \in DOMAIN rows0 :
              SourceIsSkippable(rows0[i][pr.source_col]) =>
                  /\ pr.rows[i] = rows0[i]
                  /\ i <= Len(pr.new_rows) => pr.new_rows[i] = rows0[i]
                  /\ \A e \in DOMAIN trace : trace[e].row # i
        /\ pr.stats.skipped_source_invalid =
              Cardinality({i \in 1..Len(pr.new_rows) :
                              SourceIsSkippable(rows0[i][pr.source_col])})

C5_Witness ==
    /\ pr.pc = "returned"
    /\ ~pr.preserve_existing
    /\ Len(rows0) = 2
    /\ rows0[1][pr.source_col] = <<"1",".","5">>
    /\ rows0[1]["French(fr)"] = T_z
    /\ ~SourceIsSkippable(rows0[2][pr.source_col])
    /\ pr.stats.skipped_source_invalid = 1
    /\ pr.stats.translated_cells = 2

\* the target cells that hold non-blank content when process_rows is called
FilledCells ==
    {c \in (DOMAIN rows0) \X TargetHeaders : NonBlank(rows0[c[1]][c[2]])}

\* C6 as stated: with preserve_existing, every target cell that is non-blank
\* keeps its value, has no translate call made for it, and adds exactly one
\* to skipped_existing.
C6_Original ==
    (pr.pc = "returned" /\ pr.preserve_existing) =>
        /\ \A c \in FilledCells :
              /\ pr.rows[c[1]][c[2]] = rows0[c[1]][c[2]]
              /\ \A e \in CellEvents(c[1], c[2]) : trace[e].ev = "skip"
        /\ pr.stats.skipped_existing = Cardinality(FilledCells)

\* C6 as amended: with preserve_existing, every target cell that is non-blank
\* keeps its value and has no translate call made for it; it adds exactly one
\* to skipped_existing when the source of its row is not skippable, and
\* nothing when it is (the row is then counted under skipped_source_invalid).
C6_ExistingPreserved ==
    (pr.pc # "idle" /\ pr.preserve_existing) =>
        /\ \A c \in FilledCells :
              /\ pr.rows[c[1]][c[2]] = rows0[c[1]][c[2]]
              /\ \A e \in CellEvents(c[1], c[2]) : trace[e].ev = "skip"
              /\ c[1] <= Len(pr.new_rows) =>
                    Cardinality(CellEvents(c[1], c[2])) =
                        IF SourceIsSkippable(rows0[c[1]][pr.source_col])
                        THEN 0 ELSE 1
        /\ pr.stats.skipped_existing =
              Cardinality({e \in DOMAIN trace : trace[e].ev = "skip"})
        /\ \A e \in DOMAIN trace :
              trace[e].ev = "skip" => <<trace[e].row, trace[e].header>> \in FilledCells

C6_Witness ==
    /\ pr.pc = "returned"
    /\ pr.preserve_existing
    /\ pr.stats.skipped_existing = 1
    /\ pr.stats.translated_cells = 1
    /\ \E c \in FilledCells : SourceIsSkippable(rows0[c[1]][pr.source_col])
    /\ \E c \in FilledCells : ~SourceIsSkippable(rows0[c[1]][pr.source_col])

\* what the cell of a fill event is to hold: the translation, detokenized
\* with the placeholder map of the row's source
Detokenized(e) ==
    detokenize_placeholders(trace[e].text,
        tokenize_placeholders(rows0[trace[e].row][pr.source_col]).mapping)

\* C7 as stated: without preserve_existing, a non-blank target cell of a row
\* whose source is not skippable holds the translation whenever the translate
\* call or the cache lookup for it succeeded.
C7_Original ==
    (pr.pc # "idle" /\ ~pr.preserve_existing) =>
        \A e \in DOMAIN trace :
            (trace[e].ev = "fill"
             /\ <<trace[e].row, trace[e].header>> \in FilledCells) =>
                pr.rows[trace[e].row][trace[e].header] = Detokenized(e)

\* C7 as amended: without preserve_existing, every target cell of a row
\* whose source is not skippable is attempted, and a non-blank one holds the
\* detokenized translation whenever the translate call or the cache lookup
\* for it succeeded and the detokenized result is not blank; a blank result
\* is discarded and the cell keeps its content.
C7_OverwriteUnlessBlank ==
    (pr.pc # "idle" /\ ~pr.preserve_existing) =>
        /\ \A e \in DOMAIN trace :
              (trace[e].ev = "fill"
               /\ <<trace[e].row, trace[e].header>> \in FilledCells) =>
                  pr.rows[trace[e].row][trace[e].header] =
                      IF strip(Detokenized(e)) # <<>>
                      THEN Detokenized(e)
                      ELSE rows0[trace[e].row][trace[e].header]
        /\ \A e \in DOMAIN trace : trace[e].ev # "skip"
        /\ \A i \in 1..Len(pr.new_rows), h \in TargetHeaders :
              ~SourceIsSkippable(rows0[i][pr.source_col]) =>
                  \E e \in CellEvents(i, h) : trace[e].ev \in {"adapter", "fill"}

C7_Witness ==
    /\ pr.pc = "returned"
    /\ ~pr.preserve_existing
    /\ \E e \in DOMAIN trace :
          /\ trace[e].ev = "fill" /\ trace[e].ok
          /\ rows0[trace[e].row][trace[e].header] = T_z
          /\ rows0[trace[e].row][pr.source_col] = T_ax
          /\ pr.rows[trace[e].row][trace[e].header] = <<"D","a","{","x","}">>

\* how a cell ended: left alone, failed, or reached by a translation
Disposed(i, header) ==
    {e \in CellEvents(i, header) :
        trace[e].ev \in {"skip", "fill"} \/ (trace[e].ev = "adapter" /\ ~trace[e].ok)}

\* C8: a failure while translating one cell adds exactly one to errors and
\* leaves the cell as it was; every remaining target column of the row and
\* every later row is still processed, and process_rows returns.
C8_CellFailureContained ==
    pr.pc # "idle" =>
        /\ pr.stats.errors =
              Cardinality({e \in DOMAIN trace :
                              trace[e].ev = "adapter" /\ ~trace[e].ok})
        /\ \A e \in DOMAIN trace :
              (trace[e].ev = "adapter" /\ ~trace[e].ok) =>
                  pr.rows[trace[e].row][trace[e].header] =
                      rows0[trace[e].row][trace[e].header]
        /\ \A i \in 1..Len(pr.new_rows), h \in TargetHeaders :
              Cardinality(Disposed(i, h)) =
                  IF SourceIsSkippable(rows0[i][pr.source_col]) THEN 0 ELSE 1
        /\ pr.pc = "returned" => Len(pr.new_rows) = Len(rows0)
        /\ pr.pc = "translating" => tt.pc \in {"try", "sleep", "returned", "raised"}

\* the first cell of the first row fails, the second cell of that row and a
\* cell of the second row are filled
C8_Witness ==
    /\ pr.pc = "returned"
    /\ Len(trace) >= 3
    /\ trace[1].ev = "adapter" /\ ~trace[1].ok /\ trace[1].row = 1
    /\ \E e \in DOMAIN trace :
          trace[e].ev = "fill" /\ trace[e].ok /\ trace[e].row = 1
    /\ \E e \in DOMAIN trace :
          trace[e].ev = "fill" /\ trace[e].ok /\ trace[e].row = 2
    /\ pr.stats.errors = 1

----------------------------------------------------------------------------
(* Properties of run_translation_for_folder (checked under Spec).          *)

AdapterOk(e) == trace[e].ev = "adapter" /\ trace[e].ok

\* C4 as stated: within one run a given (text, target language) pair is
\* translated at most once, also when the text occurs in two input files.
C4_Original ==
    \A i, j \in DOMAIN trace :
        (i < j /\ AdapterOk(i) /\ AdapterOk(j)) =>
            ~(trace[i].source = trace[j].source /\ trace[i].lang = trace[j].lang)

\* C4 as amended: within one run a given (tokenized text, target language)
\* pair is translated at most once for each input file; the cache belongs to
\* one process_rows invocation and holds only results obtained for the
\* current file, so a text that occurs in two input files is translated once
\* for each of them.
C4_OncePerFile ==
    /\ \A i, j \in DOMAIN trace :
          (i < j /\ AdapterOk(i) /\ AdapterOk(j)
           /\ trace[i].tok = trace[j].tok /\ trace[i].lang = trace[j].lang) =>
              trace[i].file # trace[j].file
    /\ \A k \in DOMAIN pr.cache :
          \E e \in DOMAIN trace :
              /\ AdapterOk(e)
              /\ trace[e].file = run.fidx
              /\ <<trace[e].tok, trace[e].lang>> = k
              /\ trace[e].text = pr.cache[k]

\* the same source text translated into the same language for the first and
\* again for the second file
C4_Witness ==
    /\ run.pc = "returned"
    /\ \E i, j \in DOMAIN trace :
          /\ AdapterOk(i) /\ AdapterOk(j)
          /\ trace[i].file = 1 /\ trace[j].file = 2
          /\ trace[i].source = trace[j].source
          /\ trace[i].lang = trace[j].lang

FileFailed(d) == d \in {"load_failed", "schema_failed", "write_failed"}

\* C9: a failure while handling one file adds exactly one to the errors of
\* the summary and nothing to files, every file listed after it is still
\* handled, and the run returns its summary instead of raising.
C9_FileFailureContained ==
    /\ run.pc \in {"file", "processing", "returned"} =>
          /\ run.all_files # <<>> => Len(run.done) = run.fidx - 1
          /\ run.summary.files =
                Cardinality({i \in DOMAIN run.done : run.done[i] = "written"})
          /\ run.summary.errors =
                Cardinality({i \in DOMAIN run.done : FileFailed(run.done[i])})
                + Cardinality({e \in DOMAIN trace :
                                  /\ trace[e].ev = "adapter" /\ ~trace[e].ok
                                  /\ trace[e].file <= Len(run.done)
                                  /\ run.done[trace[e].file] = "written"})
          /\ run.pc = "returned" => Len(run.done) = Len(run.all_files)
    /\ run.pc = "raised" => (~run.deepl \/ run.api_key \in {None, <<>>})

C9_Witness ==
    /\ run.pc = "returned"
    /\ run.done \in {<<"write_failed", "written">>, <<"load_failed", "written">>,
                     <<"schema_failed", "written">>}
    /\ run.summary.files = 1
    /\ run.summary.errors = 1
    /\ run.summary.translated_cells = 1

\* C10: with a missing or empty API key, or without the deepl library, the
\* run fails with a RuntimeError before the input directory is listed or a
\* file read, before any translate call and before any output is written,
\* and it returns no summary.
C10_PreflightFailsFast ==
    (run.pc # "idle" /\ (~run.deepl \/ run.api_key \in {None, <<>>})) =>
        /\ run.pc \in {"start", "preflight", "raised"}
        /\ run.pc = "raised" => run.error = "RuntimeError"
        /\ ~run.listed /\ run.loaded = 0 /\ run.all_files = <<>>
        /\ tt = tt_idle /\ pr = pr_idle /\ trace = <<>>
        /\ output_dir = <<>>

C10_Witness ==
    /\ run.pc = "raised"
    /\ run.error = "RuntimeError"
    /\ run.deepl
    /\ run.api_key = <<>>
    /\ run.dirs
    /\ Len(csv_files(input_dir)) = 2

\* the input directory holds no regular file whose name ends in .csv,
\* whatever the case of the letters
NoCsvFile ==
    \A i \in DOMAIN input_dir :
        input_dir[i].isfile =>
            input_dir[i].name \notin {<<"a",".","c","s","v">>, <<"B",".","C","S","V">>}

----------------------------------------------------------------------------
(* Properties of detect_language_columns (checked under SpecDetect).       *)

\* the first position of header h in the header row hs
FirstIndex(hs, h) == CHOOSE i \in DOMAIN hs : hs[i] = h /\ \A j \in 1..(i - 1) : hs[j] # h

\* what the claim asks of a returned target map: not empty, exactly the
\* headers of the language table that are none of Key, Id and the source
\* column, each with its table code, in header order
TargetMapAsClaimed(hs, src, targets) ==
    /\ targets # <<>>
    /\ {targets[i].header : i \in DOMAIN targets} =
          {h \in Range(hs) :
              h \in DOMAIN LANG_HEADER_TO_DEEPL /\ h \notin {"Key", "Id", src}}
    /\ \A i \in DOMAIN targets :
          targets[i].code = LANG_HEADER_TO_DEEPL[targets[i].header]
    /\ \A i, j \in DOMAIN targets :
          i < j => FirstIndex(hs, targets[i].header) < FirstIndex(hs, targets[j].header)

\* C12 as stated: the call fails when the source is not among the headers
\* and fails when no header is a header of the language table; in every other
\* case it returns a target map as described.
C12_Original ==
    (fn.op = "detect_language_columns" /\ fn.pc \in {"returned", "raised"}) =>
        LET hs == fn.arg.fieldnames
            src == fn.arg.source_col
            fails == \/ src \notin Range(hs)
                     \/ ~\E i \in DOMAIN hs : hs[i] \in DOMAIN LANG_HEADER_TO_DEEPL
        IN  /\ fails => fn.pc = "raised"
            /\ ~fails => /\ fn.pc = "returned"
                         /\ TargetMapAsClaimed(hs, src, fn.result.targets)

\* C12 as amended: the call fails when the source is not among the headers
\* and fails when no header other than Key, Id and the source column is a
\* header of the language table; in every other case it returns the source
\* and a target map as described.
C12_TargetsOrFail ==
    (fn.op = "detect_language_columns" /\ fn.pc \in {"returned", "raised"}) =>
        LET hs == fn.arg.fieldnames
            src == fn.arg.source_col
            fails == \/ src \notin Range(hs)
                     \/ ~\E i \in DOMAIN hs :
                            /\ hs[i] \in DOMAIN LANG_HEADER_TO_DEEPL
                            /\ hs[i] \notin {"Key", "Id", src}
        IN  /\ fails => fn.pc = "raised" /\ ~fn.result.ok
            /\ ~fails => /\ fn.pc = "returned"
                         /\ fn.result.source = src
                         /\ TargetMapAsClaimed(hs, src, fn.result.targets)

\* two targets returned in header order, the source standing between them
C12_Witness ==
    /\ fn.op = "detect_language_columns"
    /\ fn.pc = "returned"
    /\ fn.arg.fieldnames = <<"French(fr)", "English(en)", "German(de)">>
    /\ fn.arg.source_col = "English(en)"
    /\ fn.result.targets = << [header |-> "French(fr)", code |-> "FR"],
                              [header |-> "German(de)", code |-> "DE"] >>

----------------------------------------------------------------------------
(* Properties of the placeholder tokenizer (checked under SpecTokens).     *)

\* the text holds a brace token, a printf specifier or a dollar number
HasPlaceholder(text) ==
    \E i \in DOMAIN text :
        \/ text[i] = "{" /\ \E j \in (i + 1)..Len(text) : text[j] = "}"
        \/ text[i] = "%" /\ i < Len(text) /\ text[i + 1] \in {"s", "d", "i", "f"}
        \/ text[i] = "$" /\ i < Len(text) /\ IsDigit(text[i + 1])

\* C13: for every text that holds a recognized placeholder, detokenizing
\* what tokenize_placeholders returned gives the text back unchanged.
C13_RoundTrip ==
    (fn.op = "tokenize_placeholders" /\ fn.pc = "returned"
     /\ HasPlaceholder(fn.arg)) =>
        fn.result.out = fn.arg

\* the round trip of the texts that hold no section sign, the character the
\* tokens are delimited with
RoundTripWithoutSectionSign ==
    (fn.op = "tokenize_placeholders" /\ fn.pc = "returned"
     /\ "§" \notin Range(fn.arg)) =>
        fn.result.out = fn.arg

\* a text holding all three kinds of placeholder comes back unchanged
RoundTripReached ==
    /\ fn.op = "tokenize_placeholders"
    /\ fn.pc = "returned"
    /\ fn.arg = <<"{","x","}","%","s","$","1">>
    /\ Len(fn.result.mapping) = 3
    /\ fn.result.out = fn.arg

----------------------------------------------------------------------------
(* More properties of run_translation_for_folder (checked under Spec).     *)

\* C14: when run_translation_for_folder returns, the errors of the summary
\* equal the number of per-cell failures plus the number of per-file
\* failures that were logged during the run.
C14_ErrorsReflected ==
    run.pc = "returned" =>
        /\ log.cell_failed =
              Cardinality({e \in DOMAIN trace :
                              trace[e].ev = "adapter" /\ ~trace[e].ok})
        /\ log.file_failed =
              Cardinality({i \in DOMAIN run.done : FileFailed(run.done[i])})
        /\ run.summary.errors = log.cell_failed + log.file_failed

\* the errors of the summary never exceed the errors logged; they fall short
\* by the cell failures of the files whose write failed
ErrorsNeverOverstated ==
    run.pc = "returned" =>
        run.summary.errors =
            log.cell_failed + log.file_failed
            - Cardinality({e \in DOMAIN trace :
                              /\ trace[e].ev = "adapter" /\ ~trace[e].ok
                              /\ run.done[trace[e].file] = "write_failed"})

----------------------------------------------------------------------------
(* More properties of translate_text (checked under SpecRetry).            *)

\* C16: every backoff sleep is followed by a retry: a call of translate_text
\* that made a client attempts (a >= 1) has slept at most a-1 times when it
\* returns or raises, so no sleep follows the final failed attempt.
C16_SleepOnlyBeforeRetry ==
    (tt.pc \in {"returned", "raised"} /\ Len(tt.calls) >= 1) =>
        Len(tt.slept) <= Len(tt.calls) - 1

\* what the loop does: one sleep after every failed attempt, the last
\* included
SleepAfterEveryFailure ==
    tt.pc \in {"try", "returned", "raised"} =>
        Len(tt.slept) = Cardinality({i \in DOMAIN tt.calls : ~tt.calls[i]})

----------------------------------------------------------------------------
(* More properties of process_rows (checked under SpecRows).               *)

\* the fill events whose detokenized translation is blank after trimming
BlankFills == {e \in DOMAIN trace : trace[e].ev = "fill" /\ strip(Detokenized(e)) = <<>>}

\* the fill events whose detokenized translation is not blank
WrittenFills == {e \in DOMAIN trace : trace[e].ev = "fill" /\ strip(Detokenized(e)) # <<>>}

\* C17: when the detokenized translation of an eligible cell is blank, the
\* cell keeps its previous value and adds nothing to translated_cells,
\* skipped_existing and errors; translated_cells counts exactly the cells a
\* non-blank result was written into.
C17_BlankResultDiscarded ==
    pr.pc # "idle" =>
        /\ \A e \in BlankFills :
              /\ ~trace[e].ok
              /\ pr.rows[trace[e].row][trace[e].header] =
                    rows0[trace[e].row][trace[e].header]
              /\ \A k \in CellEvents(trace[e].row, trace[e].header) :
                    /\ trace[k].ev # "skip"
                    /\ trace[k].ev = "adapter" => trace[k].ok
                    /\ trace[k].ev = "fill" => k = e
        /\ \A e \in WrittenFills :
              /\ trace[e].ok
              /\ pr.rows[trace[e].row][trace[e].header] = Detokenized(e)
        /\ pr.stats.translated_cells = Cardinality(WrittenFills)
        /\ pr.stats.skipped_existing =
              Cardinality({e \in DOMAIN trace : trace[e].ev = "skip"})
        /\ pr.stats.errors =
              Cardinality({e \in DOMAIN trace :
                              trace[e].ev = "adapter" /\ ~trace[e].ok})

\* a blank translation reaches a filled cell under the overwrite policy and
\* is discarded, while another cell of the file is written
C17_Witness ==
    /\ pr.pc = "returned"
    /\ ~pr.preserve_existing
    /\ \E e \in BlankFills :
          /\ trace[e].text = <<" ">>
          /\ rows0[trace[e].row][trace[e].header] = T_z
          /\ pr.new_rows[trace[e].row][trace[e].header] = T_z
    /\ pr.stats.translated_cells = 1
    /\ pr.stats.errors = 0
    /\ Cardinality(BlankFills) >= 2

\* the events of a cell that add to one of the three cell counters: skipped
\* as existing, failed, or written
Counted(i, header) ==
    {e \in CellEvents(i, header) :
        \/ trace[e].ev = "skip"
        \/ trace[e].ev = "adapter" /\ ~trace[e].ok
        \/ trace[e].ev = "fill" /\ trace[e].ok}

\* C18: after process_rows, rows is the number of input rows,
\* skipped_source_invalid <= rows, and translated_cells + skipped_existing +
\* errors <= (rows - skipped_source_invalid) * (number of target columns),
\* every (non-skipped row, target column) pair adding to at most one of the
\* three counters and no other cell adding to any.
C18_CounterBounds ==
    pr.pc # "idle" =>
        LET s == pr.stats
        IN  /\ s.rows = Len(rows0)
            /\ s.skipped_source_invalid <= s.rows
            /\ pr.pc = "returned" =>
                  s.translated_cells + s.skipped_existing + s.errors <=
                      (s.rows - s.skipped_source_invalid) * Len(pr.targets_map)
            /\ \A i \in DOMAIN rows0, h \in TargetHeaders :
                  Cardinality(Counted(i, h)) <=
                      IF SourceIsSkippable(rows0[i][pr.source_col]) THEN 0 ELSE 1
            /\ s.translated_cells + s.skipped_existing + s.errors =
                  Cardinality(UNION {Counted(c[1], c[2]) :
                                        c \in (DOMAIN rows0) \X TargetHeaders})

\* one row skipped for its source; of the two cells of the other row one is
\* counted and the other, whose translation came back blank, is not
C18_Witness ==
    /\ pr.pc = "returned"
    /\ pr.stats.rows = 2
    /\ pr.stats.skipped_source_invalid = 1
    /\ pr.stats.translated_cells + pr.stats.skipped_existing + pr.stats.errors = 1
    /\ pr.stats.errors = 1
    /\ Len(pr.targets_map) = 2

\* C19: process_rows returns exactly the input rows, as many and in the same
\* order, and changes no cell outside the target columns of targets_map:
\* the source column, Key and every unrecognized column are the same before
\* and after, whatever the client returns or raises.
C19_OnlyTargetCellsChange ==
    pr.pc # "idle" =>
        /\ Len(pr.new_rows) <= Len(rows0)
        /\ pr.pc = "returned" => Len(pr.new_rows) = Len(rows0)
        /\ \A i \in DOMAIN pr.new_rows :
              /\ pr.new_rows[i] = pr.rows[i]
              /\ DOMAIN pr.new_rows[i] = DOMAIN rows0[i]
              /\ \A h \in (DOMAIN rows0[i]) \ TargetHeaders :
                    pr.new_rows[i][h] = rows0[i][h]
        /\ \A i \in DOMAIN rows0 :
              \A h \in (DOMAIN rows0[i]) \ TargetHeaders :
                  pr.rows[i][h] = rows0[i][h]
        /\ TargetHeaders = {"German(de)", "French(fr)"}

\* two rows with different sources come back in their order, a target cell
\* of each rewritten, after a failure of the client for another cell
C19_Witness ==
    /\ pr.pc = "returned"
    /\ Len(rows0) = 2
    /\ rows0[1]["English(en)"] = T_ay /\ rows0[2]["English(en)"] = T_b
    /\ pr.new_rows[1]["English(en)"] = T_ay /\ pr.new_rows[2]["English(en)"] = T_b
    /\ pr.new_rows[1]["Notes"] = <<"n">>
    /\ pr.new_rows[1] # rows0[1]
    /\ pr.new_rows[2] # rows0[2]
    /\ pr.stats.errors = 1

----------------------------------------------------------------------------
(* Properties of the desktop host (checked under SpecGui and SpecGuiLive). *)

\* the batch workers whose thread has not terminated
AliveWorkers == {i \in DOMAIN gui.workers : gui.workers[i].pc # "dead"}

\* the batch workers that are inside run_translation_for_folder
RunningWorkers == {i \in DOMAIN gui.workers : gui.workers[i].pc = "run"}

\* C15: in every reachable state of the GUI at most one worker thread is
\* executing run_translation_for_folder, and a Start request made while a
\* worker is alive starts no new worker: at most one worker is alive, and
\* the workers started are as many as the requests that found none alive
\* and a key in the entry.
C15_OneWorkerAtATime ==
    /\ Cardinality(RunningWorkers) <= 1
    /\ Cardinality(AliveWorkers) <= 1
    /\ AliveWorkers \subseteq {gui.worker_thread}
    /\ Len(gui.workers) + gui.rejected + gui.no_key + Len(gui.tests) =
          gui.requests

\* a Start request made while the worker was alive was turned down, and
\* that worker is the only one there is
C15_Witness ==
    /\ gui.rejected = 1
    /\ Len(gui.workers) = 1
    /\ gui.workers[1].pc = "exit"
    /\ gui.controls = "normal"

\* while a worker is inside run_translation_for_folder the controls are
\* disabled, and so they are while any thread has its enable message to put
ControlsDisabledWhileRunning ==
    /\ RunningWorkers # {} => gui.controls = "disabled"
    /\ (\E i \in DOMAIN gui.workers : gui.workers[i].pc \in {"run", "finally"}) =>
          gui.controls = "disabled"

\* the messages of batch worker i within a sequence of messages
OfWorker(msgs, i) == SelectSeq(msgs, LAMBDA m : m.src = <<"worker", i>>)

\* the enable message of batch worker i was taken from the queue
EnableHandled(i) ==
    \E k \in DOMAIN gui.handled :
        gui.handled[k] = [src |-> <<"worker", i>>, msg |-> "__ENABLE__"]

\* the queue is consumed in the order of the puts; a worker that is through
\* has put its log lines, then the Summary or the failure line, then the
\* enable message, which is its last; once that is handled all its
\* messages are
EnableIsLastMessage ==
    /\ gui.handled \o gui.log_queue = gui.put
    /\ \A i \in DOMAIN gui.workers :
          LET msgs == OfWorker(gui.put, i)
              n == Len(msgs)
          IN  /\ gui.workers[i].pc \in {"exit", "dead"} =>
                    /\ n >= 2
                    /\ msgs[n].msg = "__ENABLE__"
                    /\ msgs[n - 1].msg \in {"Summary", "failed"}
                    /\ \A k \in 1..(n - 2) : msgs[k].msg = "line"
              /\ gui.workers[i].pc \in {"run", "finally"} =>
                    \A k \in 1..n : msgs[k].msg # "__ENABLE__"
              /\ EnableHandled(i) => OfWorker(gui.handled, i) = msgs

\* taking an enable message from the queue enables the controls
EnableEnables ==
    (/\ Len(gui'.handled) = Len(gui.handled) + 1
     /\ gui'.handled[Len(gui'.handled)].msg = "__ENABLE__") =>
        gui'.controls = "normal"

\* C20: every batch run started from the GUI eventually re-enables the
\* controls: whether run_translation_for_folder returns or raises, the
\* worker puts the enable message as its last message, after all the lines
\* of its run, and the polling loop, which takes the messages in the order
\* they were put, eventually handles it and enables the controls.
C20_RunReenablesControls ==
    /\ []EnableIsLastMessage
    /\ [][EnableEnables]_vars
    /\ \A i \in 1..MaxRequests :
          (i \in DOMAIN gui.workers) ~> EnableHandled(i)

\* a run that returned and a run that raised, both followed by their enable
\* message, which the polling loop has handled
C20_Witness ==
    /\ Len(gui.workers) = 2
    /\ EnableHandled(1) /\ EnableHandled(2)
    /\ \E k \in DOMAIN gui.handled :
          gui.handled[k] = [src |-> <<"worker", 1>>, msg |-> "Summary"]
    /\ \E k \in DOMAIN gui.handled :
          gui.handled[k] = [src |-> <<"worker", 2>>, msg |-> "failed"]
    /\ gui.controls = "normal"
    /\ gui.log_queue = <<>>

\* C21: whenever the controls have been re-enabled after a batch run and the
\* entry holds an API key, a Start request starts a new worker: none is
\* turned down as still running because of the previous run, however the
\* exit of the worker thread interleaves with the polling of the queue.
C21_StartAfterEnableAccepted ==
    /\ gui.rejected = 0
    /\ strip(gui.api_key_var) # <<>> =>
          Len(gui.workers) + Len(gui.tests) = gui.requests

\* a Start request is turned down as still running only between the handling
\* of the worker's enable message and the end of the worker's thread
RejectedOnlyBeforeThreadEnds ==
    gui'.rejected > gui.rejected =>
        /\ gui.controls = "normal"
        /\ gui.worker_thread # 0
        /\ gui.workers[gui.worker_thread].pc = "exit"
        /\ EnableHandled(gui.worker_thread)
        /\ gui'.workers = gui.workers

RejectedOnlyBeforeThreadEndsAlways == [][RejectedOnlyBeforeThreadEnds]_vars

\* once the worker's thread has ended, a Start request with a key in the
\* entry starts a new worker
StartAfterThreadEndAccepted ==
    (/\ gui'.requests > gui.requests
     /\ Len(gui'.tests) = Len(gui.tests)
     /\ strip(gui.api_key_var) # <<>>
     /\ AliveWorkers = {}) =>
        Len(gui'.workers) = Len(gui.workers) + 1

StartAfterThreadEndAcceptedAlways == [][StartAfterThreadEndAccepted]_vars

=============================================================================
